---- MODULE Spec2Model ----
(***************************************************************************)
(* Model of the endorctl provisioning step of the GitHub action:           *)
(*   src/src/utils.ts      getPlatformInfo, getEndorctlChecksum,           *)
(*                         isObject, isVersionResponse, createHashFromFile *)
(*   src/unnamed/part_000  fetchLatestEndorctlVersion, setupEndorctl, run  *)
(* One behaviour is one execution of run() on one runner environment and   *)
(* one set of action inputs, or one direct call of the exported helper     *)
(* getEndorctlChecksum.  The network and the filesystem are the            *)
(* environment: what they answer is chosen with \E in the action that      *)
(* awaits them.                                                            *)
(***************************************************************************)
EXTENDS Naturals, Sequences, FiniteSets

VARIABLES
    env,               \* process.env: RUNNER_OS, RUNNER_ARCH
    inputs,            \* core.getInput(...) values read by run()
    pc,                \* position of run()
    platform,          \* run():            const platform = getPlatformInfo()
    setupPlatform,     \* setupEndorctl():  const platform = getPlatformInfo()
    stage,             \* position of setupEndorctl()
    endorctlVersion,   \* setupEndorctl(): let endorctlVersion
    endorctlChecksum,  \* setupEndorctl(): let endorctlChecksum
    metaRequests,      \* GET <api>/meta/version issued so far
    response,          \* what the metadata endpoint answered
    downloads,         \* tc.downloadTool calls so far
    url,               \* the URL handed to tc.downloadTool
    downloadPath,      \* content of the temporary file, or Undefined
    verifications,     \* comparisons hash !== endorctlChecksum made so far
    verifiedAgainst,   \* the right-hand side of that comparison
    chmods,            \* exec.exec("chmod", ...) calls so far
    moves,             \* io.mv calls so far
    installed,         \* what lies at ./endorctl[.exe]
    pathAdded,         \* core.addPath(".") was called
    failures,          \* the messages given to core.setFailed, in order
    scans,             \* exec.exec(scan_command, ...) calls so far
    probe              \* a direct call of getEndorctlChecksum and its result

vars == << env, inputs, pc, platform, setupPlatform, stage, endorctlVersion,
           endorctlChecksum, metaRequests, response, downloads, url,
           downloadPath, verifications, verifiedAgainst, chmods, moves,
           installed, pathAdded, failures, scans, probe >>

(***************************************************************************)
(* JavaScript values.  Every value of the model is a string; undefined is  *)
(* a string no input, digest or checksum is equal to.                      *)
(***************************************************************************)
Undefined == "<undefined>"

\* JavaScript truthiness of a string-or-undefined value: `if (x)`, `!x`.
Truthy(x) == x # Undefined /\ x # ""

(***************************************************************************)
(* constants.ts (not among the sources): the runner's vocabulary, the      *)
(* endorctl vocabulary and the mapping between them.                       *)
(***************************************************************************)
SupportedRunnerOS == { "Linux", "macOS", "Windows" }

SupportedRunnerArch == { "X64", "ARM64" }

SupportedRunnerOS_Macos == "macOS"

SupportedRunnerArch_Arm64 == "ARM64"

EndorctlOS_Linux == "linux"

EndorctlOS_Macos == "macos"

EndorctlOS_Windows == "windows"

EndorctlArch_Amd64 == "amd64"

EndorctlArch_Arm64 == "arm64"

RUNNER_TO_ENDORCTL_OS(os) ==
    CASE os = "Linux"   -> EndorctlOS_Linux
      [] os = "macOS"   -> EndorctlOS_Macos
      [] os = "Windows" -> EndorctlOS_Windows
      [] OTHER          -> Undefined

RUNNER_TO_ENDORCTL_ARCH(arch) ==
    CASE arch = "X64"   -> EndorctlArch_Amd64
      [] arch = "ARM64" -> EndorctlArch_Arm64
      [] OTHER          -> Undefined

(***************************************************************************)
(* getPlatformInfo (utils.ts 28-66)                                        *)
(***************************************************************************)
ErrUnsupportedOS ==
    "Unsupported OS! This actions requires one of [Linux, macOS, Windows]."

ErrUnsupportedArch ==
    "Unsupported Architecture! This actions requires one of [AMD64(X64), ARM64]."

\* `Architecture ${RUNNER_ARCH} not supported for ${RUNNER_OS}!`
ErrUnsupportedCombination(runnerOs, runnerArch) ==
    CASE runnerArch = "ARM64" /\ runnerOs = "Linux" ->
             "Architecture ARM64 not supported for Linux!"
      [] runnerArch = "ARM64" /\ runnerOs = "Windows" ->
             "Architecture ARM64 not supported for Windows!"
      [] OTHER -> "Architecture <arch> not supported for <os>!"

defaultInfo == [ os |-> Undefined, arch |-> Undefined, error |-> Undefined ]

armOsList == { SupportedRunnerOS_Macos }

\* faulty variant: the ARM64 matrix check is dropped
getPlatformInfo_NoArmCheck(RUNNER_OS, RUNNER_ARCH) ==
    IF ~Truthy(RUNNER_OS) \/ RUNNER_OS \notin SupportedRunnerOS
    THEN [ defaultInfo EXCEPT !.error = ErrUnsupportedOS ]
    ELSE IF ~Truthy(RUNNER_ARCH) \/ RUNNER_ARCH \notin SupportedRunnerArch
    THEN [ defaultInfo EXCEPT !.error = ErrUnsupportedArch ]
    ELSE [ defaultInfo EXCEPT !.os = RUNNER_TO_ENDORCTL_OS(RUNNER_OS),
                              !.arch = RUNNER_TO_ENDORCTL_ARCH(RUNNER_ARCH) ]

\* faulty variant: the architecture is checked before the OS
getPlatformInfo_ArchFirst(RUNNER_OS, RUNNER_ARCH) ==
    IF ~Truthy(RUNNER_ARCH) \/ RUNNER_ARCH \notin SupportedRunnerArch
    THEN [ defaultInfo EXCEPT !.error = ErrUnsupportedArch ]
    ELSE IF ~Truthy(RUNNER_OS) \/ RUNNER_OS \notin SupportedRunnerOS
    THEN [ defaultInfo EXCEPT !.error = ErrUnsupportedOS ]
    ELSE IF RUNNER_ARCH = SupportedRunnerArch_Arm64 /\ RUNNER_OS \notin armOsList
    THEN [ defaultInfo EXCEPT
              !.error = ErrUnsupportedCombination(RUNNER_OS, RUNNER_ARCH) ]
    ELSE [ defaultInfo EXCEPT !.os = RUNNER_TO_ENDORCTL_OS(RUNNER_OS),
                              !.arch = RUNNER_TO_ENDORCTL_ARCH(RUNNER_ARCH) ]

getPlatformInfo(RUNNER_OS, RUNNER_ARCH) ==
    IF ~Truthy(RUNNER_OS) \/ RUNNER_OS \notin SupportedRunnerOS
    THEN [ defaultInfo EXCEPT !.error = ErrUnsupportedOS ]
    ELSE IF ~Truthy(RUNNER_ARCH) \/ RUNNER_ARCH \notin SupportedRunnerArch
    THEN [ defaultInfo EXCEPT !.error = ErrUnsupportedArch ]
    ELSE IF RUNNER_ARCH = SupportedRunnerArch_Arm64 /\ RUNNER_OS \notin armOsList
    THEN [ defaultInfo EXCEPT
              !.error = ErrUnsupportedCombination(RUNNER_OS, RUNNER_ARCH) ]
    ELSE [ defaultInfo EXCEPT !.os = RUNNER_TO_ENDORCTL_OS(RUNNER_OS),
                              !.arch = RUNNER_TO_ENDORCTL_ARCH(RUNNER_ARCH) ]

(***************************************************************************)
(* getEndorctlChecksum (utils.ts 71-89).  clientChecksums maps each of the *)
(* four ARCH_TYPE_* property names to its value, Undefined when the        *)
(* property is absent.  The template string `${os}_${arch}` is the pair    *)
(* << os, arch >>; an undefined argument prints as "undefined", which is   *)
(* no platform name.                                                       *)
(***************************************************************************)
ChecksumKeys == { "ARCH_TYPE_LINUX_AMD64", "ARCH_TYPE_MACOS_AMD64",
                  "ARCH_TYPE_MACOS_ARM64", "ARCH_TYPE_WINDOWS_AMD64" }

\* faulty variant: the fallback is undefined instead of the empty string
getEndorctlChecksum_UndefinedDefault(clientChecksums, os, arch) ==
    LET platformString == << os, arch >> IN
    CASE platformString = << EndorctlOS_Linux, EndorctlArch_Amd64 >> ->
             clientChecksums["ARCH_TYPE_LINUX_AMD64"]
      [] platformString = << EndorctlOS_Macos, EndorctlArch_Amd64 >> ->
             clientChecksums["ARCH_TYPE_MACOS_AMD64"]
      [] platformString = << EndorctlOS_Macos, EndorctlArch_Arm64 >> ->
             clientChecksums["ARCH_TYPE_MACOS_ARM64"]
      [] platformString = << EndorctlOS_Windows, EndorctlArch_Amd64 >> ->
             clientChecksums["ARCH_TYPE_WINDOWS_AMD64"]
      [] OTHER -> Undefined

\* faulty variant: macOS/ARM64 reads the macOS/AMD64 checksum
getEndorctlChecksum_WrongKey(clientChecksums, os, arch) ==
    LET platformString == << os, arch >> IN
    CASE platformString = << EndorctlOS_Linux, EndorctlArch_Amd64 >> ->
             clientChecksums["ARCH_TYPE_LINUX_AMD64"]
      [] platformString = << EndorctlOS_Macos, EndorctlArch_Amd64 >> ->
             clientChecksums["ARCH_TYPE_MACOS_AMD64"]
      [] platformString = << EndorctlOS_Macos, EndorctlArch_Arm64 >> ->
             clientChecksums["ARCH_TYPE_MACOS_AMD64"]
      [] platformString = << EndorctlOS_Windows, EndorctlArch_Amd64 >> ->
             clientChecksums["ARCH_TYPE_WINDOWS_AMD64"]
      [] OTHER -> ""

getEndorctlChecksum(clientChecksums, os, arch) ==
    LET platformString == << os, arch >> IN
    CASE platformString = << EndorctlOS_Linux, EndorctlArch_Amd64 >> ->
             clientChecksums["ARCH_TYPE_LINUX_AMD64"]
      [] platformString = << EndorctlOS_Macos, EndorctlArch_Amd64 >> ->
             clientChecksums["ARCH_TYPE_MACOS_AMD64"]
      [] platformString = << EndorctlOS_Macos, EndorctlArch_Arm64 >> ->
             clientChecksums["ARCH_TYPE_MACOS_ARM64"]
      [] platformString = << EndorctlOS_Windows, EndorctlArch_Amd64 >> ->
             clientChecksums["ARCH_TYPE_WINDOWS_AMD64"]
      [] OTHER -> ""

(***************************************************************************)
(* The metadata response.  A body is the JSON text the endpoint answers:   *)
(*   json             "malformed" (JSON.parse throws) or the kind of the   *)
(*                    parsed value: "null", "prim", "array", "object"      *)
(*   Service          kind of the property ("absent" when the value has    *)
(*                    none) and its Version (Undefined when it has none)   *)
(*   ClientChecksums  kind of the property and its ARCH_TYPE_* values      *)
(***************************************************************************)
\* isObject (utils.ts 107-109): typeof value === "object" && value !== null
isObject(kind) == kind \in { "array", "object" }

\* isVersionResponse (utils.ts 114-124)
isVersionResponse(value) ==
    /\ isObject(value.json)
    /\ value.Service.kind # "absent"
    /\ isObject(value.Service.kind)
    /\ value.ClientChecksums.kind # "absent"
    /\ isObject(value.ClientChecksums.kind)

ErrMetadataFetch ==
    "Failed to fetch latest version of endorctl from Endor Labs API: <cause>"

ErrMetadataParse == "Invalid response from Endor Labs API: <body>"

\* fetchLatestEndorctlVersion (part_000 27-52).  answer.transport is "error"
\* when _http.get rejects; otherwise answer.body is what readBody() returns.
\* The result is the message of the Error thrown (Undefined when none) and
\* the data returned.
fetchLatestEndorctlVersion(answer) ==
    IF answer.transport = "error"
    THEN [ threw |-> ErrMetadataFetch, data |-> answer.body ]
    ELSE IF answer.body.json = "malformed"
    THEN [ threw |-> ErrMetadataParse, data |-> answer.body ]
    ELSE IF ~isVersionResponse(answer.body)
    THEN [ threw |-> ErrMetadataParse, data |-> answer.body ]
    ELSE [ threw |-> Undefined, data |-> answer.body ]

(***************************************************************************)
(* createHashFromFile (utils.ts 15-21): the lowercase hex SHA-256 digest   *)
(* of the file's content.  Contents are abstract; the table is injective   *)
(* and every digest is a non-empty lowercase string.                       *)
(***************************************************************************)
createHashFromFile(content) ==
    CASE content = "binary-linux"   -> "aa11"
      [] content = "binary-macos"   -> "bb22"
      [] content = "binary-macarm"  -> "cc33"
      [] content = "binary-windows" -> "dd44"
      [] OTHER                      -> "ee55"

(***************************************************************************)
(* Inputs of the model: the runner environment, the action's inputs, and   *)
(* what the network may answer.                                            *)
(***************************************************************************)
RunnerOSValues == { Undefined, "", "Linux", "macOS", "Windows", "linux" }

RunnerArchValues == { Undefined, "", "X64", "ARM64", "AMD64" }

PinnedVersions == { "", "v1.2.3" }

PinnedChecksums == { "", "aa11", "AA11" }

InputValues ==
    [ namespace : { "", "ns" },
      enable_github_action_token : BOOLEAN,
      api_key : { "", "key" },
      api_secret : { "", "secret" },
      gcp_service_account : { "", "sa" },
      endorctl_version : PinnedVersions,
      endorctl_checksum : PinnedChecksums ]

Contents == { "binary-linux", "binary-macos", "binary-macarm",
              "binary-windows", "binary-tampered" }

CsMissing == [ k \in ChecksumKeys |-> Undefined ]

CsEmpty == [ k \in ChecksumKeys |-> "" ]

CsUpper == [ k \in ChecksumKeys |-> "AA11" ]

CsDistinct ==
    [ k \in ChecksumKeys |->
        CASE k = "ARCH_TYPE_LINUX_AMD64"   -> "aa11"
          [] k = "ARCH_TYPE_MACOS_AMD64"   -> "bb22"
          [] k = "ARCH_TYPE_MACOS_ARM64"   -> "cc33"
          [] k = "ARCH_TYPE_WINDOWS_AMD64" -> "dd44" ]

CsOnlyMacArm ==
    [ k \in ChecksumKeys |->
        IF k = "ARCH_TYPE_MACOS_ARM64" THEN "cc33" ELSE Undefined ]

ChecksumSets == { CsMissing, CsEmpty, CsUpper, CsDistinct, CsOnlyMacArm }

NotObjectKinds == { "absent", "null", "prim" }

ServiceValues ==
    { [ kind |-> k, Version |-> Undefined ] : k \in NotObjectKinds \cup { "array" } }
    \cup { [ kind |-> "object", Version |-> v ] : v \in { Undefined, "v2.0.0" } }

ClientChecksumsValues ==
    { [ kind |-> k, sums |-> CsMissing ] : k \in NotObjectKinds \cup { "array" } }
    \cup { [ kind |-> "object", sums |-> c ] : c \in ChecksumSets }

NoBody(j) ==
    [ json |-> j,
      Service |-> [ kind |-> "absent", Version |-> Undefined ],
      ClientChecksums |-> [ kind |-> "absent", sums |-> CsMissing ] ]

Bodies ==
    { NoBody(j) : j \in { "malformed", "null", "prim", "array" } }
    \cup { [ json |-> "object", Service |-> s, ClientChecksums |-> c ] :
             s \in ServiceValues, c \in ClientChecksumsValues }

Answers ==
    { [ transport |-> "error", body |-> NoBody("malformed") ] }
    \cup { [ transport |-> "ok", body |-> b ] : b \in Bodies }

NoAnswer == [ transport |-> "none", body |-> NoBody("malformed") ]

NoUrl == [ version |-> Undefined, os |-> Undefined, arch |-> Undefined,
           suffix |-> Undefined ]

NoInstall == [ path |-> Undefined, content |-> Undefined ]

NoProbe == [ called |-> FALSE, os |-> Undefined, arch |-> Undefined,
             clientChecksums |-> CsMissing, result |-> Undefined ]

ProbeOS == { Undefined, "linux", "macos", "windows", "darwin", "Linux" }

ProbeArch == { Undefined, "amd64", "arm64", "x64" }

Init ==
    /\ env \in [ RUNNER_OS : RunnerOSValues, RUNNER_ARCH : RunnerArchValues ]
    /\ inputs \in InputValues
    /\ pc = "run"
    /\ platform = defaultInfo
    /\ setupPlatform = defaultInfo
    /\ stage = "Start"
    /\ endorctlVersion = Undefined
    /\ endorctlChecksum = Undefined
    /\ metaRequests = 0
    /\ response = NoAnswer
    /\ downloads = 0
    /\ url = NoUrl
    /\ downloadPath = Undefined
    /\ verifications = 0
    /\ verifiedAgainst = Undefined
    /\ chmods = 0
    /\ moves = 0
    /\ installed = NoInstall
    /\ pathAdded = FALSE
    /\ failures = << >>
    /\ scans = 0
    /\ probe = NoProbe

(***************************************************************************)
(* run (part_000 136-289), up to the call of setupEndorctl                 *)
(***************************************************************************)
ErrScanFailed == "Endorctl Scan Failed"

ErrNamespace ==
    "namespace is required and must be passed as an input from the workflow"

ErrAuth ==
    "Authentication info not found. Either set enable_github_action_token: true or provide one of gcp_service_account or api_key and api_secret combination"

\* faulty variant: run() does not look at platform.error
RunPlatformRejected_Never(p) == FALSE

\* part_000 150: if (platform.error)
RunPlatformRejected(p) == Truthy(p.error)

\* part_000 185: if (!NAMESPACE)
NamespaceMissing(in) == ~Truthy(in.namespace)

\* part_000 191-195
AuthMissing(in) ==
    /\ ~in.enable_github_action_token
    /\ ~(Truthy(in.api_key) /\ Truthy(in.api_secret))
    /\ ~Truthy(in.gcp_service_account)

\* part_000 147-152 and the catch of 286-288: the platform is resolved first;
\* an unsupported platform throws, and the catch marks the run failed.
RunGetPlatform ==
    /\ pc = "run"
    /\ platform' = getPlatformInfo(env.RUNNER_OS, env.RUNNER_ARCH)
    /\ IF RunPlatformRejected(platform')
       THEN /\ failures' = Append(failures, ErrScanFailed)
            /\ pc' = "done"
       ELSE /\ failures' = failures
            /\ pc' = "validate"
    /\ UNCHANGED << env, inputs, setupPlatform, stage, endorctlVersion,
                    endorctlChecksum, metaRequests, response, downloads, url,
                    downloadPath, verifications, verifiedAgainst, chmods,
                    moves, installed, pathAdded, scans, probe >>

\* part_000 154-200: the inputs are read; a missing namespace or missing
\* authentication marks the run failed and returns.
RunValidateInputs ==
    /\ pc = "validate"
    /\ IF NamespaceMissing(inputs)
       THEN /\ failures' = Append(failures, ErrNamespace)
            /\ pc' = "done"
       ELSE IF AuthMissing(inputs)
       THEN /\ failures' = Append(failures, ErrAuth)
            /\ pc' = "done"
       ELSE /\ failures' = failures
            /\ pc' = "setup"
    /\ UNCHANGED << env, inputs, platform, setupPlatform, stage,
                    endorctlVersion, endorctlChecksum, metaRequests, response,
                    downloads, url, downloadPath, verifications,
                    verifiedAgainst, chmods, moves, installed, pathAdded,
                    scans, probe >>

(***************************************************************************)
(* setupEndorctl (part_000 54-107).  stage is its position, in the words   *)
(* of the provisioning state machine; each action runs the code up to the  *)
(* next await.  A throw anywhere lands in the catch of 104-106, which      *)
(* calls core.setFailed(error) and returns normally to run().              *)
(***************************************************************************)
ErrChecksumMismatch ==
    "The checksum of the downloaded binary does not match the expected value!"

ErrDownload == "<error thrown by tc.downloadTool>"

ErrChmod == "<error thrown by exec.exec chmod>"

ErrMove == "<error thrown by io.mv>"

\* part_000 58: if (platform.error)
SetupPlatformRejected(p) == Truthy(p.error)

\* faulty variant: the latest version is always fetched
UsePinned_Never(version) == FALSE

\* part_000 66: if (!version) { fetch } -- the pinned values are kept otherwise
UsePinned(version) == Truthy(version)

\* faulty variant: the digests are compared without regard to case
ChecksumMatches_IgnoreCase(hash, expected) ==
    \/ hash = expected
    \/ hash = "aa11" /\ expected = "AA11"

\* part_000 86: hash !== endorctlChecksum, negated
ChecksumMatches(hash, expected) == hash = expected

\* part_000 62: const isWindows
isWindows(p) == p.os = EndorctlOS_Windows

\* part_000 79-81: the download URL, as the values it is built from
DownloadUrl(version, p) ==
    [ version |-> version, os |-> p.os, arch |-> p.arch,
      suffix |-> IF isWindows(p) THEN ".exe" ELSE "" ]

\* part_000 95-99: path.join(".", `endorctl${isWindows ? ".exe" : ""}`)
EndorctlPath(p) == IF isWindows(p) THEN "endorctl.exe" ELSE "endorctl"

\* part_000 104-106: catch (error) { core.setFailed(error) }, then the return
SetupCatch(error) ==
    /\ failures' = Append(failures, error)
    /\ stage' = "Failed"
    /\ pc' = "scan"

\* part_000 55-60
SetupGetPlatform ==
    /\ pc = "setup"
    /\ stage = "Start"
    /\ setupPlatform' = getPlatformInfo(env.RUNNER_OS, env.RUNNER_ARCH)
    /\ IF SetupPlatformRejected(setupPlatform')
       THEN SetupCatch(setupPlatform'.error)
       ELSE /\ stage' = "PlatformResolved"
            /\ UNCHANGED << failures, pc >>
    /\ UNCHANGED << env, inputs, platform, endorctlVersion, endorctlChecksum,
                    metaRequests, response, downloads, url, downloadPath,
                    verifications, verifiedAgainst, chmods, moves, installed,
                    pathAdded, scans, probe >>

\* part_000 64-66, version given: no request, the pinned pair is used
SetupUsePinned ==
    /\ pc = "setup"
    /\ stage = "PlatformResolved"
    /\ UsePinned(inputs.endorctl_version)
    /\ endorctlVersion' = inputs.endorctl_version
    /\ endorctlChecksum' = inputs.endorctl_checksum
    /\ stage' = "VersionResolved"
    /\ UNCHANGED << env, inputs, pc, platform, setupPlatform, metaRequests,
                    response, downloads, url, downloadPath, verifications,
                    verifiedAgainst, chmods, moves, installed, pathAdded,
                    failures, scans, probe >>

\* part_000 64-76, no version given: one GET of <api>/meta/version
SetupFetchLatest ==
    /\ pc = "setup"
    /\ stage = "PlatformResolved"
    /\ ~UsePinned(inputs.endorctl_version)
    /\ metaRequests' = metaRequests + 1
    /\ \E answer \in Answers :
         LET got == fetchLatestEndorctlVersion(answer) IN
         /\ response' = answer
         /\ IF got.threw # Undefined
            THEN /\ endorctlVersion' = inputs.endorctl_version
                 /\ endorctlChecksum' = inputs.endorctl_checksum
                 /\ SetupCatch(got.threw)
            ELSE /\ endorctlVersion' = got.data.Service.Version
                 /\ endorctlChecksum' =
                        getEndorctlChecksum(got.data.ClientChecksums.sums,
                                            setupPlatform.os, setupPlatform.arch)
                 /\ stage' = "VersionResolved"
                 /\ UNCHANGED << failures, pc >>
    /\ UNCHANGED << env, inputs, platform, setupPlatform, downloads, url,
                    downloadPath, verifications, verifiedAgainst, chmods,
                    moves, installed, pathAdded, scans, probe >>

\* faulty variant: a failed download is attempted once more
SetupDownload_Retry ==
    /\ pc = "setup"
    /\ stage = "VersionResolved"
    /\ downloads' = downloads + 1
    /\ url' = DownloadUrl(endorctlVersion, setupPlatform)
    /\ \E got \in Contents \cup { Undefined } :
         IF got = Undefined /\ downloads >= 1
         THEN /\ downloadPath' = downloadPath
              /\ SetupCatch(ErrDownload)
         ELSE IF got = Undefined
         THEN /\ downloadPath' = downloadPath
              /\ UNCHANGED << failures, pc, stage >>
         ELSE /\ downloadPath' = got
              /\ stage' = "Downloaded"
              /\ UNCHANGED << failures, pc >>
    /\ UNCHANGED << env, inputs, platform, setupPlatform, endorctlVersion,
                    endorctlChecksum, metaRequests, response, verifications,
                    verifiedAgainst, chmods, moves, installed, pathAdded,
                    scans, probe >>

\* part_000 78-84: tc.downloadTool(url) answers a temporary file or throws
SetupDownload ==
    /\ pc = "setup"
    /\ stage = "VersionResolved"
    /\ downloads' = downloads + 1
    /\ url' = DownloadUrl(endorctlVersion, setupPlatform)
    /\ \E got \in Contents \cup { Undefined } :
         IF got = Undefined
         THEN /\ downloadPath' = downloadPath
              /\ SetupCatch(ErrDownload)
         ELSE /\ downloadPath' = got
              /\ stage' = "Downloaded"
              /\ UNCHANGED << failures, pc >>
    /\ UNCHANGED << env, inputs, platform, setupPlatform, endorctlVersion,
                    endorctlChecksum, metaRequests, response, verifications,
                    verifiedAgainst, chmods, moves, installed, pathAdded,
                    scans, probe >>

\* part_000 85-92: the file's digest against the expected checksum
SetupVerify ==
    /\ pc = "setup"
    /\ stage = "Downloaded"
    /\ verifications' = verifications + 1
    /\ verifiedAgainst' = endorctlChecksum
    /\ LET hash == createHashFromFile(downloadPath) IN
       IF ~ChecksumMatches(hash, endorctlChecksum)
       THEN SetupCatch(ErrChecksumMismatch)
       ELSE /\ stage' = "Verified"
            /\ UNCHANGED << failures, pc >>
    /\ UNCHANGED << env, inputs, platform, setupPlatform, endorctlVersion,
                    endorctlChecksum, metaRequests, response, downloads, url,
                    downloadPath, chmods, moves, installed, pathAdded, scans,
                    probe >>

\* part_000 94: exec.exec("chmod", ["+x", downloadPath]) succeeds or throws
SetupChmod ==
    /\ pc = "setup"
    /\ stage = "Verified"
    /\ chmods = 0
    /\ chmods' = chmods + 1
    /\ \E ok \in BOOLEAN :
         IF ok
         THEN UNCHANGED << failures, pc, stage >>
         ELSE SetupCatch(ErrChmod)
    /\ UNCHANGED << env, inputs, platform, setupPlatform, endorctlVersion,
                    endorctlChecksum, metaRequests, response, downloads, url,
                    downloadPath, verifications, verifiedAgainst, moves,
                    installed, pathAdded, scans, probe >>

\* part_000 95-103: io.mv(downloadPath, endorctlPath) succeeds or throws;
\* after a move the directory is added to the search path and
\* setupEndorctl returns.
SetupMove ==
    /\ pc = "setup"
    /\ stage = "Verified"
    /\ chmods = 1
    /\ moves' = moves + 1
    /\ \E ok \in BOOLEAN :
         IF ok
         THEN /\ installed' = [ path |-> EndorctlPath(setupPlatform),
                                content |-> downloadPath ]
              /\ downloadPath' = Undefined
              /\ pathAdded' = TRUE
              /\ stage' = "Installed"
              /\ pc' = "scan"
              /\ failures' = failures
         ELSE /\ SetupCatch(ErrMove)
              /\ UNCHANGED << installed, downloadPath, pathAdded >>
    /\ UNCHANGED << env, inputs, platform, setupPlatform, endorctlVersion,
                    endorctlChecksum, metaRequests, response, downloads, url,
                    verifications, verifiedAgainst, chmods, scans, probe >>

(***************************************************************************)
(* run, after setupEndorctl has returned (part_000 207-288): the scanner   *)
(* is invoked by name; when exec.exec throws, the catch marks the run      *)
(* failed.                                                                 *)
(***************************************************************************)
RunScan ==
    /\ pc = "scan"
    /\ scans' = scans + 1
    /\ pc' = "done"
    /\ \E ok \in BOOLEAN :
         failures' = IF ok THEN failures ELSE Append(failures, ErrScanFailed)
    /\ UNCHANGED << env, inputs, platform, setupPlatform, stage,
                    endorctlVersion, endorctlChecksum, metaRequests, response,
                    downloads, url, downloadPath, verifications,
                    verifiedAgainst, chmods, moves, installed, pathAdded,
                    probe >>

(***************************************************************************)
(* A direct call of the exported getEndorctlChecksum, as a unit test makes *)
(* it: any checksum set, any os and arch, undefined included.              *)
(***************************************************************************)
CallGetEndorctlChecksum ==
    /\ pc = "run"
    /\ \E cs \in ChecksumSets, os \in ProbeOS, arch \in ProbeArch :
         probe' = [ called |-> TRUE, os |-> os, arch |-> arch,
                    clientChecksums |-> cs,
                    result |-> getEndorctlChecksum(cs, os, arch) ]
    /\ pc' = "called"
    /\ UNCHANGED << env, inputs, platform, setupPlatform, stage,
                    endorctlVersion, endorctlChecksum, metaRequests, response,
                    downloads, url, downloadPath, verifications,
                    verifiedAgainst, chmods, moves, installed, pathAdded,
                    failures, scans >>

Next ==
    \/ RunGetPlatform
    \/ RunValidateInputs
    \/ SetupGetPlatform
    \/ SetupUsePinned
    \/ SetupFetchLatest
    \/ SetupDownload
    \/ SetupVerify
    \/ SetupChmod
    \/ SetupMove
    \/ RunScan
    \/ CallGetEndorctlChecksum

Spec == Init /\ [][Next]_vars

(***************************************************************************)
(* The supported matrix and the checksum property of each platform, as the *)
(* specification states them, in the runner's vocabulary.                  *)
(***************************************************************************)
MatrixOS == { "Linux", "macOS", "Windows" }

MatrixArch == { "X64", "ARM64" }

SupportedMatrix == { << "Linux", "X64" >>, << "macOS", "X64" >>,
                     << "macOS", "ARM64" >>, << "Windows", "X64" >> }

Reported == << env.RUNNER_OS, env.RUNNER_ARCH >>

MatrixKey(pair) ==
    CASE pair = << "Linux", "X64" >>   -> "ARCH_TYPE_LINUX_AMD64"
      [] pair = << "macOS", "X64" >>   -> "ARCH_TYPE_MACOS_AMD64"
      [] pair = << "macOS", "ARM64" >> -> "ARCH_TYPE_MACOS_ARM64"
      [] pair = << "Windows", "X64" >> -> "ARCH_TYPE_WINDOWS_AMD64"

CombinationErrors ==
    { ErrUnsupportedCombination(o, a) : o \in RunnerOSValues, a \in RunnerArchValues }

\* run() has called getPlatformInfo
PlatformAsked == pc \notin { "run", "called" }

\* the error setupEndorctl failed with: run() records none before calling it
SetupError == failures[1]

(***************************************************************************)
(* C1: getPlatformInfo returns exactly one of {value, error}: os and arch  *)
(* defined and no error for each pair of the supported matrix; an error    *)
(* and neither os nor arch for every other pair, unset and empty strings   *)
(* included.  The same holds of the call setupEndorctl makes.              *)
(***************************************************************************)
ExactlyOne(p) ==
    IF Reported \in SupportedMatrix
    THEN p.os # Undefined /\ p.arch # Undefined /\ p.error = Undefined
    ELSE p.os = Undefined /\ p.arch = Undefined /\ Truthy(p.error)

C1_ExactlyOneOfValueOrError ==
    /\ PlatformAsked => ExactlyOne(platform)
    /\ stage # "Start" => ExactlyOne(setupPlatform)

C1_Witness ==
    /\ PlatformAsked
    /\ Reported = << "macOS", "ARM64" >>
    /\ platform = [ os |-> "macos", arch |-> "arm64", error |-> Undefined ]

(***************************************************************************)
(* C2: an empty, unset or unrecognised OS gives the unsupported-OS error   *)
(* whatever the architecture; a supported OS with an empty, unset or       *)
(* unrecognised architecture gives the unsupported-architecture error; a   *)
(* supported OS other than macOS with ARM64 gives the unsupported-         *)
(* combination error; no other input gives any of the three.               *)
(***************************************************************************)
C2_ErrorKinds ==
    PlatformAsked =>
      /\ platform.error = ErrUnsupportedOS <=> env.RUNNER_OS \notin MatrixOS
      /\ platform.error = ErrUnsupportedArch <=>
            (env.RUNNER_OS \in MatrixOS /\ env.RUNNER_ARCH \notin MatrixArch)
      /\ platform.error \in CombinationErrors <=>
            (env.RUNNER_OS \in MatrixOS \ { "macOS" } /\ env.RUNNER_ARCH = "ARM64")
      /\ platform.error \in CombinationErrors =>
            platform.error = ErrUnsupportedCombination(env.RUNNER_OS, env.RUNNER_ARCH)

C2_Witness ==
    /\ PlatformAsked
    /\ env.RUNNER_OS = ""
    /\ env.RUNNER_ARCH = "AMD64"
    /\ platform.error = ErrUnsupportedOS

(***************************************************************************)
(* C3: with a pinned version no request to the metadata endpoint is ever   *)
(* issued, the download URL carries the pinned version and the digest is   *)
(* compared with the pinned checksum, an empty one included.               *)
(***************************************************************************)
C3_PinnedShortCircuits ==
    inputs.endorctl_version # "" =>
      /\ metaRequests = 0
      /\ response = NoAnswer
      /\ stage \in { "VersionResolved", "Downloaded", "Verified", "Installed" } =>
            /\ endorctlVersion = inputs.endorctl_version
            /\ endorctlChecksum = inputs.endorctl_checksum
      /\ downloads > 0 => url.version = inputs.endorctl_version
      /\ verifications > 0 => verifiedAgainst = inputs.endorctl_checksum

C3_Witness ==
    /\ inputs.endorctl_version = "v1.2.3"
    /\ inputs.endorctl_checksum = ""
    /\ url.version = "v1.2.3"
    /\ verifications = 1
    /\ verifiedAgainst = ""

(***************************************************************************)
(* C4: when the metadata endpoint answers a body that is not well-formed   *)
(* JSON, or is well-formed but has no Service object or no ClientChecksums *)
(* object, setupEndorctl fails with the parse error and the run makes no   *)
(* download, no checksum verification and no install step.                 *)
(* An array is not a JSON object: the answer                               *)
(* {"Service": [], "ClientChecksums": []} has neither object.              *)
(***************************************************************************)
LacksObjects(body) ==
    \/ body.json # "object"
    \/ body.Service.kind # "object"
    \/ body.ClientChecksums.kind # "object"

C4_InvalidBodyRejectedBeforeUse ==
    (response.transport = "ok" /\ LacksObjects(response.body)) =>
      /\ stage = "Failed"
      /\ SetupError = ErrMetadataParse
      /\ downloads = 0
      /\ verifications = 0
      /\ chmods = 0
      /\ moves = 0
      /\ ~pathAdded

(***************************************************************************)
(* C5: the downloaded file is moved to the install path, and the install   *)
(* directory published, only if its SHA-256 hex digest is the very string  *)
(* of the expected checksum.  Verification against the file's own digest   *)
(* succeeds; against any other string it fails with the checksum-mismatch  *)
(* error, and then no chmod, no move and no publication occurs.            *)
(***************************************************************************)
C5_InstallOnlyIfDigestEqual ==
    /\ stage = "Verified" => createHashFromFile(downloadPath) = endorctlChecksum
    /\ (moves > 0 /\ stage = "Installed") =>
          createHashFromFile(installed.content) = verifiedAgainst
    /\ (chmods > 0 \/ moves > 0 \/ pathAdded \/ installed # NoInstall) =>
          /\ verifications = 1
          /\ ~(stage = "Failed" /\ SetupError = ErrChecksumMismatch)
    /\ (verifications = 1 /\ stage = "Failed" /\ downloadPath # Undefined) =>
          IF createHashFromFile(downloadPath) = verifiedAgainst
          THEN SetupError # ErrChecksumMismatch
          ELSE /\ SetupError = ErrChecksumMismatch
               /\ chmods = 0
               /\ moves = 0
               /\ ~pathAdded
               /\ installed = NoInstall

C5_Witness ==
    /\ stage = "Failed"
    /\ SetupError = ErrChecksumMismatch
    /\ downloadPath = "binary-linux"
    /\ verifiedAgainst = "AA11"
    /\ moves = 0

(***************************************************************************)
(* C6: once setupEndorctl has failed, the run never goes on to invoke the  *)
(* scanner command.                                                        *)
(***************************************************************************)
C6_NoScanAfterFailedSetup == stage = "Failed" => scans = 0

(***************************************************************************)
(* C7: on an unsupported platform the run fails before any metadata        *)
(* request, download, install step or scanner invocation: none of them     *)
(* ever occurs in that run, and setupEndorctl is never entered.            *)
(***************************************************************************)
C7_UnsupportedPlatformFailsFirst ==
    Reported \notin SupportedMatrix =>
      /\ pc \in { "run", "called", "done" }
      /\ stage = "Start"
      /\ metaRequests = 0
      /\ downloads = 0
      /\ verifications = 0
      /\ chmods = 0
      /\ moves = 0
      /\ ~pathAdded
      /\ installed = NoInstall
      /\ scans = 0
      /\ pc = "done" => failures = << ErrScanFailed >>

C7_Witness ==
    /\ Reported = << "Windows", "ARM64" >>
    /\ pc = "done"
    /\ platform.error = "Architecture ARM64 not supported for Windows!"
    /\ failures = << ErrScanFailed >>

(***************************************************************************)
(* C8: provisioning is linear and one-shot.  The stage only moves one step *)
(* along Start, PlatformResolved, VersionResolved, Downloaded, Verified,   *)
(* Installed, or to Failed; the metadata request, the download, the        *)
(* verification and the move each happen at most once; Failed and          *)
(* Installed are terminal: Failed keeps the first error and no             *)
(* provisioning step is taken after it.                                    *)
(***************************************************************************)
StageOrder == { << "Start", "PlatformResolved" >>,
                << "PlatformResolved", "VersionResolved" >>,
                << "VersionResolved", "Downloaded" >>,
                << "Downloaded", "Verified" >>,
                << "Verified", "Installed" >> }

provisioning == << stage, metaRequests, downloads, verifications, chmods,
                   moves, installed, pathAdded, endorctlVersion,
                   endorctlChecksum, url, downloadPath >>

LinearStep ==
    /\ stage' # stage =>
          \/ << stage, stage' >> \in StageOrder
          \/ stage \notin { "Installed", "Failed" } /\ stage' = "Failed"
    /\ metaRequests' <= 1 /\ metaRequests' >= metaRequests
    /\ downloads' <= 1 /\ downloads' >= downloads
    /\ verifications' <= 1 /\ verifications' >= verifications
    /\ moves' <= 1 /\ moves' >= moves
    /\ (stage # "Failed" /\ stage' = "Failed") =>
          /\ failures = << >>
          /\ Len(failures') = 1
    /\ stage = "Failed" =>
          /\ provisioning' = provisioning
          /\ SetupError' = SetupError
    /\ stage = "Installed" => provisioning' = provisioning
    /\ (metaRequests' > metaRequests) => stage = "PlatformResolved"
    /\ (downloads' > downloads) => stage = "VersionResolved"
    /\ (verifications' > verifications) => stage = "Downloaded"
    /\ (moves' > moves) => stage = "Verified"

C8_LinearOneShot == [][LinearStep]_vars

C8_Witness ==
    /\ stage = "Installed"
    /\ metaRequests = 1
    /\ downloads = 1
    /\ verifications = 1
    /\ moves = 1
    /\ failures = << >>

(***************************************************************************)
(* C9: getEndorctlChecksum answers the empty string, not an error, for     *)
(* every (os, arch) outside the four platform keys; and when the expected  *)
(* checksum is empty or absent, verification of any downloaded file ends   *)
(* in the checksum-mismatch error and nothing is installed.                *)
(***************************************************************************)
PlatformKeys == { << "linux", "amd64" >>, << "macos", "amd64" >>,
                  << "macos", "arm64" >>, << "windows", "amd64" >> }

C9_DeferredFailure ==
    /\ (probe.called /\ << probe.os, probe.arch >> \notin PlatformKeys) =>
          probe.result = ""
    /\ (verifications = 1 /\ verifiedAgainst \in { "", Undefined }) =>
          /\ stage = "Failed"
          /\ SetupError = ErrChecksumMismatch
          /\ chmods = 0
          /\ moves = 0
          /\ installed = NoInstall
          /\ ~pathAdded

C9_Witness ==
    /\ response.transport = "ok"
    /\ response.body.ClientChecksums.sums = CsOnlyMacArm
    /\ Reported = << "Linux", "X64" >>
    /\ verifications = 1
    /\ verifiedAgainst = Undefined
    /\ SetupError = ErrChecksumMismatch

(***************************************************************************)
(* C10: with no pinned version the metadata endpoint is queried exactly    *)
(* once, the download URL carries the Service.Version of that answer, the  *)
(* digest is compared with the ClientChecksums entry of the resolved       *)
(* platform from the same answer, and the pinned checksum is not used.     *)
(***************************************************************************)
C10_VersionAndChecksumFromOneAnswer ==
    /\ metaRequests <= 1
    /\ inputs.endorctl_version = "" =>
         /\ stage \notin { "Start", "PlatformResolved" } => metaRequests = 1
         /\ stage \in { "VersionResolved", "Downloaded", "Verified", "Installed" } =>
               /\ response.transport = "ok"
               /\ endorctlVersion = response.body.Service.Version
               /\ endorctlChecksum =
                     response.body.ClientChecksums.sums[MatrixKey(Reported)]
         /\ downloads > 0 => url.version = response.body.Service.Version
         /\ verifications > 0 =>
               verifiedAgainst =
                   response.body.ClientChecksums.sums[MatrixKey(Reported)]

C10_Witness ==
    /\ inputs.endorctl_version = ""
    /\ inputs.endorctl_checksum = "aa11"
    /\ Reported = << "macOS", "ARM64" >>
    /\ metaRequests = 1
    /\ url.version = "v2.0.0"
    /\ verifiedAgainst = "cc33"
    /\ stage = "Installed"

====
